---- MODULE Spec2Model ----
(***************************************************************************)
(* Model of scripts/update_sources.py (class IPTVUpdater): the M3U record  *)
(* parser, the playlist emitter, the deduplicator, the categorizer, the    *)
(* reachability prober, the thread-pool validator, the quality filter and  *)
(* the pipeline run that chains them.                                      *)
(*                                                                         *)
(* A Python str is modelled as a sequence of one-character strings, so     *)
(* that strip, startswith, the regular expression, lower and the substring *)
(* test are computed on characters.  A character outside ASCII is written  *)
(* by its code point ("u592E").                                            *)
(***************************************************************************)
EXTENDS Integers, Sequences, FiniteSets, TLC

VARIABLES
    pc,                 \* position of the main thread in the modelled function
    lines,              \* parse_m3u: the lines of content.splitlines() read so far
    current_channel,    \* parse_m3u: the pending record (<<>> is the empty dict)
    channels,           \* parse_m3u: the records emitted so far
    content,            \* text returned by generate_m3u_content
    reparsed,           \* parse_m3u applied to that text
    all_channels,       \* run: concatenation of the parsed sequences
    dedup_i,            \* run: number of records the dedup loop has consumed
    unique_channels,    \* run: the dict keyed by url, in insertion order
    unique_channels_list,
    quality_channels,   \* validate_channels_parallel: its argument channels
    max_workers,        \* width W of the pool
    submitted,          \* number of futures created by executor.submit
    queue,              \* the executor's work queue (future ids, FIFO)
    worker,             \* worker thread -> future it is probing, 0 when idle
    future,             \* future id -> its state, its outcome, and what its
                        \* requests.head call did (net)
    completed,          \* future ids in the order as_completed yielded them
    valid_channels,
    validation_results,
    channel_name,       \* categorize_channel: its argument
    category,           \* categorize_channel: its return value
    filter_i,           \* filter_quality_channels: number of records consumed
    probe_channel,      \* is_url_accessible: its argument channel
    probe_net,          \* what requests.head would do for that channel
    probe_result,       \* is_url_accessible: the pair it returned
    head_calls,         \* is_url_accessible: calls of requests.head made
    sources_config,     \* run: what load_sources returned
    src_i,              \* run: number of primary sources attempted
    backup_i,           \* run: number of backup sources attempted
    successful_sources, \* run: its counter of sources with content
    fetch_log,          \* run: the calls of fetch_source, in order, each with
                        \* the url and what it returned
    categorized_channels, \* run: category -> records
    outputs,            \* the files written, in order, each with its content
    stats               \* run: the summary written to stats.json

pvars == <<lines, current_channel, channels, content, reparsed>>
dvars == <<all_channels, dedup_i, unique_channels, unique_channels_list>>
vvars == <<quality_channels, max_workers, submitted, queue, worker, future,
           completed, valid_channels, validation_results>>
cvars == <<channel_name, category>>
fvars == <<filter_i>>
bvars == <<probe_channel, probe_net, probe_result, head_calls>>
rvars == <<sources_config, src_i, backup_i, successful_sources, fetch_log, categorized_channels,
           outputs, stats>>
xvars == <<fvars, bvars, rvars>>
vars == <<pc, pvars, dvars, vvars, cvars, xvars>>

(***************************************************************************)
(* Bounds of the model.                                                    *)
(***************************************************************************)
MaxLines == 3
MaxRecords == 3
MaxChannels == 3
MaxWorkers == 2
MaxChunks == 2

(***************************************************************************)
(* Strings.                                                                *)
(***************************************************************************)
Whitespace == {" ", "\t"}

Upper == <<"A","B","C","D","E","F","G","H","I","J","K","L","M",
           "N","O","P","Q","R","S","T","U","V","W","X","Y","Z">>

LowerLetters == <<"a","b","c","d","e","f","g","h","i","j","k","l","m",
                  "n","o","p","q","r","s","t","u","v","w","x","y","z">>

\* str.lower() on one character.
LowerChar(c) ==
    IF \E k \in 1..26 : Upper[k] = c
    THEN LowerLetters[CHOOSE k \in 1..26 : Upper[k] = c]
    ELSE c

\* str.lower()
Lower(s) == [k \in 1..Len(s) |-> LowerChar(s[k])]

\* s.startswith(p)
StartsWith(s, p) == Len(s) >= Len(p) /\ SubSeq(s, 1, Len(p)) = p

\* p in s (substring test)
Contains(s, p) ==
    \E k \in 1..(Len(s) - Len(p) + 1) : SubSeq(s, k, k + Len(p) - 1) = p

\* str.strip()
Strip(s) ==
    LET keep == {k \in 1..Len(s) : s[k] \notin Whitespace}
    IN  IF keep = {} THEN <<>>
        ELSE LET lo == CHOOSE k \in keep : \A j \in keep : k <= j
                 hi == CHOOSE k \in keep : \A j \in keep : k >= j
             IN  SubSeq(s, lo, hi)

Digit == <<"0","1","2","3","4","5","6","7","8","9">>

\* str(i) for i >= 0
RECURSIVE Digits(_)
Digits(i) == IF i < 10 THEN <<Digit[i + 1]>>
             ELSE Digits(i \div 10) \o <<Digit[(i % 10) + 1]>>

\* str.splitlines() on a text whose only line boundary is "\n"
RECURSIVE SplitLines(_)
SplitLines(s) ==
    IF s = <<>> THEN <<>>
    ELSE LET nl == {k \in 1..Len(s) : s[k] = "\n"}
         IN  IF nl = {} THEN <<s>>
             ELSE LET p == CHOOSE k \in nl : \A j \in nl : k <= j
                  IN  <<SubSeq(s, 1, p - 1)>> \o SplitLines(SubSeq(s, p + 1, Len(s)))

(***************************************************************************)
(* parse_m3u                                                               *)
(***************************************************************************)
EXTINF == <<"#","E","X","T","I","N","F">>

TransportPrefixes ==
    { <<"h","t","t","p",":","/","/">>, <<"h","t","t","p","s",":","/","/">>,
      <<"r","t","s","p",":","/","/">>, <<"r","t","m","p",":","/","/">> }

IsTransport(line) == \E p \in TransportPrefixes : StartsWith(line, p)

Unknown(i) == <<"U","n","k","n","o","w","n","_">> \o Digits(i)

\* A mutant of ExtractName: the name follows the last comma.
ExtractNameLastComma(line, i) ==
    LET commas == {k \in 1..Len(line) : line[k] = ","}
    IN  IF commas = {} THEN Unknown(i)
        ELSE LET p == CHOOSE k \in commas : \A j \in commas : k >= j
             IN  Strip(SubSeq(line, p + 1, Len(line)))

\* re.search(r',(?P<name>.*)$', line): the leftmost comma matches and the
\* greedy group takes the rest of the line; without a comma the name is
\* Unknown_<i>.
ExtractName(line, i) ==
    LET commas == {k \in 1..Len(line) : line[k] = ","}
    IN  IF commas = {} THEN Unknown(i)
        ELSE LET p == CHOOSE k \in commas : \A j \in commas : k <= j
             IN  Strip(SubSeq(line, p + 1, Len(line)))

\* A mutant of CloseRecord: the pending slot is not cleared.
CloseRecordKeepPending(st, line, source_url) ==
    IF st.current_channel # <<>>
    THEN [current_channel |-> st.current_channel,
          channels |-> Append(st.channels,
              [raw_extinf |-> st.current_channel[1].raw_extinf,
               name |-> st.current_channel[1].name,
               url |-> line, source |-> source_url])]
    ELSE st

\* The transport branch of the loop body.
CloseRecord(st, line, source_url) ==
    IF st.current_channel # <<>>
    THEN [current_channel |-> <<>>,
          channels |-> Append(st.channels,
              [raw_extinf |-> st.current_channel[1].raw_extinf,
               name |-> st.current_channel[1].name,
               url |-> line, source |-> source_url])]
    ELSE st

\* One iteration of the loop over enumerate(lines); i is the 0-based index.
ParseStep(st, i, raw, source_url) ==
    LET line == Strip(raw)
    IN  IF line = <<>> THEN st
        ELSE IF StartsWith(line, EXTINF)
        THEN [current_channel |-> <<[raw_extinf |-> line, name |-> ExtractName(line, i)]>>,
              channels |-> st.channels]
        ELSE IF IsTransport(line) THEN CloseRecord(st, line, source_url)
        ELSE st

RECURSIVE ParseFrom(_, _, _, _)
ParseFrom(st, i, ls, source_url) ==
    IF i >= Len(ls) THEN st.channels
    ELSE ParseFrom(ParseStep(st, i, ls[i + 1], source_url), i + 1, ls, source_url)

parse_m3u(text, source_url) ==
    ParseFrom([current_channel |-> <<>>, channels |-> <<>>], 0, SplitLines(text), source_url)

(***************************************************************************)
(* generate_m3u_content                                                    *)
(***************************************************************************)
\* The value of a strftime call: the clock is outside the model.
Timestamp == <<"2","0","2","4","-","0","1","-","0","1"," ","0","0",":","0","0",":","0","0">>

\* "raw" stands for the title run passes for the deduplicated playlist.
Title == <<"r","a","w">>

Header(title, n) ==
    <<"#","E","X","T","M","3","U","\n">>
    \o <<"#","E","X","T","E","N","C",":"," ","U","T","F","-","8","\n">>
    \o <<"#"," ","G","e","n","e","r","a","t","e","d",":"," ">> \o Timestamp
        \o <<" ","U","T","C","\n">>
    \o <<"#"," ","U","p","d","a","t","e","d",":"," ">> \o Timestamp \o <<"\n">>
    \o <<"#"," ","T","i","t","l","e",":"," ">> \o title \o <<"\n">>
    \o <<"#"," ","T","o","t","a","l"," ","C","h","a","n","n","e","l","s",":"," ">>
        \o Digits(n) \o <<"\n">>
    \o <<"#"," ","F","o","r"," ","p","e","r","s","o","n","a","l"," ",
         "t","e","s","t","i","n","g"," ","o","n","l","y",".","\n">>
    \o <<"\n">>

\* A mutant of Body: the locator line is written before the metadata line.
RECURSIVE BodyUrlFirst(_)
BodyUrlFirst(chs) ==
    IF chs = <<>> THEN <<>>
    ELSE Head(chs).url \o <<"\n">> \o Head(chs).raw_extinf \o <<"\n">> \o BodyUrlFirst(Tail(chs))

\* The loop "content += raw_extinf + newline + url + newline".
RECURSIVE Body(_)
Body(chs) ==
    IF chs = <<>> THEN <<>>
    ELSE Head(chs).raw_extinf \o <<"\n">> \o Head(chs).url \o <<"\n">> \o Body(Tail(chs))

generate_m3u_content(chs, title) == Header(title, Len(chs)) \o Body(chs)

(***************************************************************************)
(* The parser run: parse_m3u reads a document line by line, then the       *)
(* emitter serializes the records and the parser reads that text again.    *)
(***************************************************************************)
HTTP == <<"h","t","t","p",":","/","/">>

RTSP == <<"r","t","s","p",":","/","/">>

HTTPS == <<"h","t","t","p","s",":","/","/">>

RTMP == <<"r","t","m","p",":","/","/">>

YouTube == <<"y","o","u","t","u","b","e",".","c","o","m">>

Twitch == <<"t","w","i","t","c","h",".","t","v">>

\* The lines a source document is made of.
RawLines ==
    { <<>>,
      <<" ">>,
      EXTINF \o <<":","-","1">>,
      EXTINF \o <<",","a">>,
      EXTINF \o <<",","a",",","b">>,
      EXTINF \o <<","," ">>,
      <<" ">> \o EXTINF \o <<","," ","b"," ">>,
      HTTP \o <<"u">>,
      <<" ">> \o HTTP \o <<"w">> \o <<"\t">>,
      RTSP \o <<"v">>,
      <<"#","E","X","T","M","3","U">>,
      <<"f","t","p",":","/","/","x">> }

SourceUrl == HTTP \o <<"s">>

ParserIdle ==
    /\ lines = <<>>
    /\ current_channel = <<>>
    /\ channels = <<>>
    /\ content = <<>>
    /\ reparsed = <<>>

DedupIdle ==
    /\ all_channels = <<>>
    /\ dedup_i = 0
    /\ unique_channels = <<>>
    /\ unique_channels_list = <<>>

ValidatorIdle ==
    /\ quality_channels = <<>>
    /\ max_workers = 1
    /\ submitted = 0
    /\ queue = <<>>
    /\ worker = <<>>
    /\ future = <<>>
    /\ completed = <<>>
    /\ valid_channels = <<>>
    /\ validation_results = <<>>

CategorizerIdle ==
    /\ channel_name = <<>>
    /\ category = "none"

FilterIdle == filter_i = 0

NoResult == [valid |-> FALSE, message |-> ""]

ProberIdle ==
    /\ probe_channel = <<>>
    /\ probe_net = <<>>
    /\ probe_result = NoResult
    /\ head_calls = 0

RunIdle ==
    /\ sources_config = [sources |-> <<>>, backup_sources |-> <<>>]
    /\ src_i = 0
    /\ backup_i = 0
    /\ successful_sources = 0
    /\ fetch_log = <<>>
    /\ categorized_channels = <<>>
    /\ outputs = <<>>
    /\ stats = <<>>

ExtraIdle == FilterIdle /\ ProberIdle /\ RunIdle

InitParse ==
    /\ pc = "parse"
    /\ ParserIdle /\ DedupIdle /\ ValidatorIdle /\ CategorizerIdle /\ ExtraIdle

\* One iteration of "for i, line in enumerate(lines)".
ParseLine ==
    /\ pc = "parse"
    /\ Len(lines) < MaxLines
    /\ \E raw \in RawLines :
        LET st == ParseStep([current_channel |-> current_channel, channels |-> channels],
                            Len(lines), raw, SourceUrl)
        IN  /\ lines' = Append(lines, raw)
            /\ current_channel' = st.current_channel
            /\ channels' = st.channels
    /\ UNCHANGED <<pc, content, reparsed, dvars, vvars, cvars, xvars>>

\* The loop is over: return channels.
ParseReturn ==
    /\ pc = "parse"
    /\ pc' = "parsed"
    /\ UNCHANGED <<pvars, dvars, vvars, cvars, xvars>>

\* content = generate_m3u_content(channels, title)
Emit ==
    /\ pc = "parsed"
    /\ content' = generate_m3u_content(channels, Title)
    /\ pc' = "emitted"
    /\ UNCHANGED <<lines, current_channel, channels, reparsed, dvars, vvars, cvars, xvars>>

\* parse_m3u on the emitted text
Reparse ==
    /\ pc = "emitted"
    /\ reparsed' = parse_m3u(content, SourceUrl)
    /\ pc' = "reparsed"
    /\ UNCHANGED <<lines, current_channel, channels, content, dvars, vvars, cvars, xvars>>

NextParse == ParseLine \/ ParseReturn \/ Emit \/ Reparse

SpecParse == InitParse /\ [][NextParse]_vars

(***************************************************************************)
(* Claims about the parser and the emitter (checked under SpecParse).      *)
(***************************************************************************)
Stripped(k) == Strip(lines[k])

IsMeta(k) == StartsWith(Stripped(k), EXTINF)

IsTrans(k) == ~IsMeta(k) /\ IsTransport(Stripped(k))

\* A metadata line is pending when line k is read: some earlier metadata
\* line has no transport line after it.
PendingAt(k) ==
    \E m \in 1..(k - 1) : IsMeta(m) /\ \A j \in (m + 1)..(k - 1) : ~IsTrans(j)

Closing == {k \in 1..Len(lines) : IsTrans(k) /\ PendingAt(k)}

LastMeta(k) == CHOOSE m \in 1..(k - 1) : IsMeta(m) /\ \A j \in (m + 1)..(k - 1) : ~IsMeta(j)

HasComma(s) == \E k \in 1..Len(s) : s[k] = ","

C7_NameAfterLastComma ==
    \A r \in 1..Len(channels) :
        LET raw == channels[r].raw_extinf
        IN  HasComma(raw) =>
            \E p \in 1..Len(raw) :
                /\ raw[p] = ","
                /\ \A j \in (p + 1)..Len(raw) : raw[j] # ","
                /\ channels[r].name = Strip(SubSeq(raw, p + 1, Len(raw)))

\* C7 amended: the name is what follows the first comma of the metadata line,
\* trimmed of whitespace, later commas included.
C7_NameAfterFirstComma ==
    \A r \in 1..Len(channels) :
        LET raw == channels[r].raw_extinf
        IN  HasComma(raw) =>
            \E p \in 1..Len(raw) :
                /\ raw[p] = ","
                /\ \A j \in 1..(p - 1) : raw[j] # ","
                /\ channels[r].name = Strip(SubSeq(raw, p + 1, Len(raw)))

\* C7 witness: a record whose metadata line has two commas was parsed, and
\* its name still holds a comma.
C7_Witness ==
    \E r \in 1..Len(channels) :
        /\ Cardinality({k \in 1..Len(channels[r].raw_extinf) :
                            channels[r].raw_extinf[k] = ","}) >= 2
        /\ HasComma(channels[r].name)

\* C8: every record the parser produced has a non-empty name.
C8_NameNeverEmpty ==
    \A r \in 1..Len(channels) : channels[r].name # <<>>

DictInsertOverwrite(d, channel) ==
    IF \E k \in 1..Len(d) : d[k].url = channel.url
    THEN [k \in 1..Len(d) |-> IF d[k].url = channel.url THEN channel ELSE d[k]]
    ELSE Append(d, channel)

\* "if url not in unique_channels: unique_channels[url] = channel".  The dict
\* is the sequence of its values in insertion order; the key of a value is
\* its url.
DictInsert(d, channel) ==
    IF \E k \in 1..Len(d) : d[k].url = channel.url
    THEN d
    ELSE Append(d, channel)

Newline == <<"\n">>

\* The records the sources contribute: parsed from a metadata line and a
\* locator line of a document fetched from one of two sources.
DedupRecords ==
    { parse_m3u(m \o Newline \o u \o Newline, src)[1] :
        m \in {EXTINF \o <<",","a">>, EXTINF \o <<",","b">>},
        u \in {HTTP \o <<"u">>, HTTP \o <<"w">>},
        src \in {HTTP \o <<"s">>, HTTP \o <<"t">>} }

InitDedup ==
    /\ pc = "extend"
    /\ ParserIdle /\ DedupIdle /\ ValidatorIdle /\ CategorizerIdle /\ ExtraIdle

\* all_channels.extend(channels), one parsed record at a time.
Extend ==
    /\ pc = "extend"
    /\ Len(all_channels) < MaxRecords
    /\ \E channel \in DedupRecords : all_channels' = Append(all_channels, channel)
    /\ UNCHANGED <<pc, dedup_i, unique_channels, unique_channels_list, pvars, vvars, cvars, xvars>>

\* unique_channels = {}
DedupStart ==
    /\ pc = "extend"
    /\ pc' = "dedup"
    /\ UNCHANGED <<pvars, dvars, vvars, cvars, xvars>>

\* One iteration of "for channel in all_channels".
DedupStep ==
    /\ pc = "dedup"
    /\ dedup_i < Len(all_channels)
    /\ unique_channels' = DictInsert(unique_channels, all_channels[dedup_i + 1])
    /\ dedup_i' = dedup_i + 1
    /\ UNCHANGED <<pc, all_channels, unique_channels_list, pvars, vvars, cvars, xvars>>

\* unique_channels_list = list(unique_channels.values())
DedupList ==
    /\ pc = "dedup"
    /\ dedup_i = Len(all_channels)
    /\ unique_channels_list' = unique_channels
    /\ pc' = "deduped"
    /\ UNCHANGED <<all_channels, dedup_i, unique_channels, pvars, vvars, cvars, xvars>>

NextDedup == Extend \/ DedupStart \/ DedupStep \/ DedupList

SpecDedup == InitDedup /\ [][NextDedup]_vars

FirstIndex(url) ==
    CHOOSE k \in 1..Len(all_channels) :
        /\ all_channels[k].url = url
        /\ \A j \in 1..(k - 1) : all_channels[j].url # url

\* C5: the deduplicated list holds no two records with the same url, holds
\* every url of the input exactly once, keeps for each url the first record
\* of the input that has it, and is in first-seen order.
C5_DedupFirstOccurrence ==
    pc = "deduped" =>
        /\ \A a, b \in 1..Len(unique_channels_list) :
              unique_channels_list[a].url = unique_channels_list[b].url => a = b
        /\ \A k \in 1..Len(all_channels) :
              Cardinality({a \in 1..Len(unique_channels_list) :
                  unique_channels_list[a].url = all_channels[k].url}) = 1
        /\ \A a \in 1..Len(unique_channels_list) :
              /\ \E k \in 1..Len(all_channels) :
                    all_channels[k].url = unique_channels_list[a].url
              /\ unique_channels_list[a] = all_channels[FirstIndex(unique_channels_list[a].url)]
        /\ \A a, b \in 1..Len(unique_channels_list) :
              a < b => FirstIndex(unique_channels_list[a].url)
                           < FirstIndex(unique_channels_list[b].url)

\* C5 witness: a url occurred twice with different names and sources, and
\* the list holds the earlier record.
C5_Witness ==
    /\ pc = "deduped"
    /\ Len(all_channels) = 3
    /\ Len(unique_channels_list) = 2
    /\ \E j, k \in 1..Len(all_channels) :
        /\ j < k
        /\ all_channels[j].url = all_channels[k].url
        /\ all_channels[j].name # all_channels[k].name
        /\ all_channels[j].source # all_channels[k].source
        /\ \E a \in 1..Len(unique_channels_list) : unique_channels_list[a] = all_channels[j]

(***************************************************************************)
(* categorize_channel                                                      *)
(***************************************************************************)
cctv_keywords ==
    << <<"c","c","t","v">>,
       <<"u592E","u89C6">>,
       <<"u4E2D","u592E">> >>

satellite_keywords ==
    << <<"u536B","u89C6">>,
       <<"u51E4","u51F0">>,
       <<"u6E56","u5357">>,
       <<"u6D59","u6C5F">>,
       <<"u6C5F","u82CF">>,
       <<"u5317","u4EAC">> >>

local_keywords ==
    << <<"u90FD","u5E02">>,
       <<"u65B0","u95FB">>,
       <<"u6C11","u751F">>,
       <<"u516C","u5171">>,
       <<"u6559","u80B2">>,
       <<"u5C11","u513F">>,
       <<"u4F53","u80B2">> >>

hongkong_keywords ==
    << <<"t","v","b">>,
       <<"v","i","u","t","v">>,
       <<"u65E0","u7EBF","u65B0","u95FB">>,
       <<"H","O","Y">>,
       <<"N","O","W">>,
       <<"u51E4","u51F0">>,
       <<"u7FE1","u7FE0">>,
       <<"u660E","u73E0">>,
       <<"R","T","H","K">> >>

\* any(keyword in name_lower for keyword in keywords)
AnyKeyword(name_lower, keywords) ==
    \E k \in 1..Len(keywords) : Contains(name_lower, keywords[k])

categorize_channel(name) ==
    LET name_lower == Lower(name)
    IN  IF AnyKeyword(name_lower, cctv_keywords) THEN "cctv"
        ELSE IF AnyKeyword(name_lower, satellite_keywords) THEN "satellite"
        ELSE IF AnyKeyword(name_lower, local_keywords) THEN "local"
        ELSE IF AnyKeyword(name_lower, hongkong_keywords) THEN "hongkong"
        ELSE "other"

Range(f) == {f[k] : k \in DOMAIN f}

\* The pieces a display name is made of: every keyword as the code writes
\* it, the Latin keywords in the other letter case, and two fillers.
NameChunks ==
    Range(cctv_keywords) \cup Range(satellite_keywords)
    \cup Range(local_keywords) \cup Range(hongkong_keywords)
    \cup { <<"C","C","T","V">>, <<"T","V","B">>, <<"V","i","u","T","V">>,
           <<"h","o","y">>, <<"n","o","w">>, <<"r","t","h","k">>,
           <<"x">>, <<" ">> }

RECURSIVE NamesOf(_)
NamesOf(n) ==
    IF n = 0 THEN {<<>>}
    ELSE LET shorter == NamesOf(n - 1)
         IN  shorter \cup {p \o c : p \in shorter, c \in NameChunks}

InitCat ==
    /\ pc = "categorize"
    /\ ParserIdle /\ DedupIdle /\ ValidatorIdle /\ ExtraIdle
    /\ channel_name \in NamesOf(MaxChunks)
    /\ category = "none"

\* category = self.categorize_channel(channel['name'])
Categorize ==
    /\ pc = "categorize"
    /\ category' = categorize_channel(channel_name)
    /\ pc' = "categorized"
    /\ UNCHANGED <<channel_name, pvars, dvars, vvars, xvars>>

NextCat == Categorize

SpecCat == InitCat /\ [][NextCat]_vars

\* A keyword of the set occurs in the name, letter case ignored on both sides.
MatchesIgnoringCase(name, keywords) ==
    \E k \in 1..Len(keywords) : Contains(Lower(name), Lower(keywords[k]))

\* C10: the category is the label of the first set, in the order cctv,
\* satellite, local, hongkong, with a keyword that occurs in the name as a
\* case-insensitive substring, and other when no set has one.
C10_FirstSetIgnoringCase ==
    pc = "categorized" =>
        category =
            IF MatchesIgnoringCase(channel_name, cctv_keywords) THEN "cctv"
            ELSE IF MatchesIgnoringCase(channel_name, satellite_keywords) THEN "satellite"
            ELSE IF MatchesIgnoringCase(channel_name, local_keywords) THEN "local"
            ELSE IF MatchesIgnoringCase(channel_name, hongkong_keywords) THEN "hongkong"
            ELSE "other"

(***************************************************************************)
(* is_url_accessible                                                       *)
(***************************************************************************)
Digits09 == {Digit[k] : k \in 1..10}

Letters == {Upper[k] : k \in 1..26} \cup {LowerLetters[k] : k \in 1..26}

\* urlparse(url).scheme: the text before the first colon when it starts with
\* a letter and holds only scheme characters, in lower case; else empty.
SchemeEnd(url) ==
    LET colons == {k \in 1..Len(url) : url[k] = ":"}
    IN  IF colons = {} THEN 0
        ELSE LET p == CHOOSE k \in colons : \A j \in colons : k <= j
             IN  IF /\ p > 1
                    /\ url[1] \in Letters
                    /\ \A j \in 1..(p - 1) : url[j] \in Letters \cup Digits09 \cup {"+", "-", "."}
                 THEN p ELSE 0

UrlScheme(url) == IF SchemeEnd(url) = 0 THEN <<>> ELSE Lower(SubSeq(url, 1, SchemeEnd(url) - 1))

\* urlparse(url).netloc: what follows "//" after the scheme, up to the next
\* "/", "?" or "#".
UrlNetloc(url) ==
    LET rest == SubSeq(url, SchemeEnd(url) + 1, Len(url))
    IN  IF ~StartsWith(rest, <<"/","/">>) THEN <<>>
        ELSE LET ends == {k \in 3..Len(rest) : rest[k] \in {"/", "?", "#"}}
             IN  IF ends = {} THEN SubSeq(rest, 3, Len(rest))
                 ELSE SubSeq(rest, 3, (CHOOSE k \in ends : \A j \in ends : k <= j) - 1)

TrustedDomains ==
    { <<"y","o","u","t","u","b","e",".","c","o","m">>,
      <<"y","o","u","t","u",".","b","e">>,
      <<"t","w","i","t","c","h",".","t","v">> }

\* What requests.head does for one call: it returns a response with a
\* status code, or raises Timeout, ConnectionError or another exception.
NetResponses ==
    { [exc |-> "none", status |-> 200], [exc |-> "none", status |-> 301],
      [exc |-> "none", status |-> 302], [exc |-> "none", status |-> 404],
      [exc |-> "Timeout", status |-> 0], [exc |-> "ConnectionError", status |-> 0],
      [exc |-> "Exception", status |-> 0] }

\* A mutant of HeadRequest: the request is sent whatever the scheme.
HeadRequestAnyScheme(url, net) == net

\* requests has no adapter for a scheme other than http and https: the call
\* raises InvalidSchema before any network traffic.
HeadRequest(url, net) ==
    IF UrlScheme(url) \in {<<"h","t","t","p">>, <<"h","t","t","p","s">>}
    THEN net
    ELSE [exc |-> "Exception", status |-> 0]

\* all([result.scheme, result.netloc]): the locator has a scheme and a host
\* part.
WellFormed(url) == UrlScheme(url) # <<>> /\ UrlNetloc(url) # <<>>

\* any(domain in url for domain in [...]): a listed domain occurs anywhere
\* in the locator text.
OnAllowList(url) == \E domain \in TrustedDomains : Contains(url, domain)

StatusOkAny(status) == TRUE

\* response.status_code in [200, 302, 301]
StatusOk(status) == status \in {200, 302, 301}

\* The verdict on what the request did: the status test on a response, and
\* one except clause per kind of exception.
Classify(response) ==
    IF response.exc = "Timeout"
    THEN [valid |-> FALSE, message |-> "timeout"]
    ELSE IF response.exc = "ConnectionError"
    THEN [valid |-> FALSE, message |-> "connection_error"]
    ELSE IF response.exc # "none"
    THEN [valid |-> FALSE, message |-> "exception"]
    ELSE IF StatusOk(response.status)
    THEN [valid |-> TRUE, message |-> "status"]
    ELSE [valid |-> FALSE, message |-> "status"]

\* The pair (is_valid, message) is_url_accessible returns; the message is
\* kept as its kind.
is_url_accessible(channel, net) ==
    LET url == channel.url
    IN  IF ~WellFormed(url)
        THEN [valid |-> FALSE, message |-> "invalid_url"]
        ELSE IF OnAllowList(url)
        THEN [valid |-> TRUE, message |-> "skipped"]
        ELSE Classify(HeadRequest(url, net))

(***************************************************************************)
(* validate_channels_parallel                                              *)
(*                                                                         *)
(* The main thread submits one future per channel to a ThreadPoolExecutor  *)
(* and then iterates as_completed; each pool worker takes the next queued  *)
(* future, runs is_url_accessible on its channel and stores the outcome in *)
(* the future.                                                             *)
(***************************************************************************)
\* The records validated, parsed from a metadata line and a locator line:
\* one with a plain locator, one with a locator on a listed platform.
ValChannels ==
    { parse_m3u(EXTINF \o <<",","a">> \o Newline \o HTTP \o <<"u">> \o Newline, SourceUrl)[1],
      parse_m3u(EXTINF \o <<",","b">> \o Newline \o HTTP \o Twitch \o Newline, SourceUrl)[1] }

RECURSIVE SeqsUpTo(_, _)
SeqsUpTo(S, n) ==
    IF n = 0 THEN {<<>>}
    ELSE LET shorter == SeqsUpTo(S, n - 1)
         IN  shorter \cup {Append(q, x) : q \in {r \in shorter : Len(r) = n - 1}, x \in S}

\* The responses the validator's probes receive.
ProbeResponses ==
    { [exc |-> "none", status |-> 200], [exc |-> "none", status |-> 404],
      [exc |-> "Timeout", status |-> 0] }

NoResponse == [exc |-> "unset", status |-> 0]

NewFuture == [state |-> "pending", raised |-> FALSE, valid |-> FALSE,
              message |-> "", net |-> NoResponse]

\* A mutant of PoolWorkers: the pool grows by one thread.
PoolWorkersGrow(W) == 1..(W + 1)

\* ThreadPoolExecutor(max_workers=W): the worker threads of the pool.
PoolWorkers(W) == 1..W

\* A mutant of WorkerRelease: a worker that finished a probe is not given
\* back to the pool.
WorkerLeak(wk, w) == wk

\* A worker that finished its work item goes back to waiting on the queue.
WorkerRelease(wk, w) == [wk EXCEPT ![w] = 0]

\* A mutant of OnException: the outcome of a probe that raised is dropped.
OnExceptionDrop(results, channel) == results

\* The except branch of the collecting loop.
OnException(results, channel) ==
    Append(results, [channel |-> channel.name, url |-> channel.url,
                     valid |-> FALSE, message |-> "validation_exception"])

\* The try branch of the collecting loop, after future.result() returned.
OnResult(results, channel, is_valid, message) ==
    Append(results, [channel |-> channel.name, url |-> channel.url,
                     valid |-> is_valid, message |-> message])

\* A mutant of OnValid: a record that became reachable is put in front.
OnValidInFront(valid, channel, is_valid) ==
    IF is_valid THEN <<channel>> \o valid ELSE valid

\* A mutant of OnValid: the record is kept whatever its verdict.
OnValidAlways(valid, channel, is_valid) == Append(valid, channel)

\* if is_valid: valid_channels.append(channel)
OnValid(valid, channel, is_valid) ==
    IF is_valid THEN Append(valid, channel) ELSE valid

\* A mutant of ProbeWrites: the probe itself appends its verdict to the
\* outcome list, from the worker thread.
ProbeWritesOutcome(results, channel, outcome) ==
    Append(results, [channel |-> channel.name, url |-> channel.url,
                     valid |-> outcome.valid, message |-> outcome.message])

\* What a call of is_url_accessible leaves in the outcome list: the function
\* assigns to nothing but its locals and hands its verdict back through the
\* future.
ProbeWrites(results, channel, outcome) == results

\* A mutant of AfterCollect: an exception of future.result() is not caught
\* and leaves the loop.
AfterCollectPropagate(raised) == IF raised THEN "aborted" ELSE "collect"

\* Where the main thread is after handling one future: the try/except keeps
\* it in the loop.
AfterCollect(raised) == "collect"

InitValidate ==
    /\ pc = "submit"
    /\ ParserIdle /\ DedupIdle /\ CategorizerIdle /\ ExtraIdle
    /\ quality_channels \in SeqsUpTo(ValChannels, MaxChannels)
    /\ max_workers \in 1..MaxWorkers
    /\ submitted = 0
    /\ queue = <<>>
    /\ worker = [w \in PoolWorkers(max_workers) |-> 0]
    /\ future = <<>>
    /\ completed = <<>>
    /\ valid_channels = <<>>
    /\ validation_results = <<>>

\* executor.submit(self.is_url_accessible, channel) for the next channel.
Submit ==
    /\ pc = "submit"
    /\ submitted < Len(quality_channels)
    /\ submitted' = submitted + 1
    /\ future' = Append(future, NewFuture)
    /\ queue' = Append(queue, submitted + 1)
    /\ UNCHANGED <<pc, quality_channels, max_workers, worker, completed,
                   valid_channels, validation_results, pvars, dvars, cvars, xvars>>

\* The dict comprehension is over: as_completed(future_to_channel) is called.
SubmitDone ==
    /\ pc = "submit"
    /\ submitted = Len(quality_channels)
    /\ pc' = "collect"
    /\ UNCHANGED <<pvars, dvars, vvars, cvars, xvars>>

\* An idle worker takes the next work item and calls is_url_accessible.
ProbeStart(w) ==
    /\ worker[w] = 0
    /\ queue # <<>>
    /\ worker' = [worker EXCEPT ![w] = Head(queue)]
    /\ queue' = Tail(queue)
    /\ future' = [future EXCEPT ![Head(queue)].state = "running"]
    /\ UNCHANGED <<pc, quality_channels, max_workers, submitted, completed,
                   valid_channels, validation_results, pvars, dvars, cvars, xvars>>

\* The sources of a run: two primary sources and one backup source, as in
\* the configuration load_sources falls back to.
Sources == <<HTTP \o <<"p">>, HTTP \o <<"q">>>>

BackupSources == <<HTTP \o <<"k">>>>

Entry(name, url) == EXTINF \o <<",">> \o name \o Newline \o url \o Newline

\* Source documents: one with a record the filter drops, one whose first
\* locator is also in the other document and whose other locators are not
\* http ones, and one that holds no record at all.
DocA ==
    <<"#","E","X","T","M","3","U","\n">>
    \o Entry(<<"c","c","t","v">>, HTTP \o <<"u">>)
    \o Entry(<<"D","e","m","o">>, HTTP \o <<"w">>)

DocB ==
    Entry(<<"t","v","b">>, HTTP \o <<"u">>)
    \o Entry(<<"x">>, RTSP \o <<"v">>)
    \o Entry(<<"y">>, RTMP \o Twitch \o <<"/","y">>)

DocNoRecords == <<"#","E","X","T","M","3","U","\n">>

DocTexts == {DocA, DocB, DocNoRecords}

\* What fetch_source returns: None, or the text of the response, which may
\* be empty.
NoContent == [none |-> TRUE, text |-> <<>>]

FetchResults == {NoContent} \cup {[none |-> FALSE, text |-> t] : t \in DocTexts \cup {<<>>}}

\* if content:
Truthy(fetched) == ~fetched.none /\ fetched.text # <<>>

\* parse_m3u tabulated over the documents and the sources of a run.
ParseTable ==
    [t \in DocTexts |->
        [s \in Range(Sources) \cup Range(BackupSources) |-> parse_m3u(t, s)]]

\* The records a run can hold.
RunChannels ==
    UNION { Range(ParseTable[t][s]) :
                t \in DocTexts, s \in Range(Sources) \cup Range(BackupSources) }

\* with open(name, 'w') as f: f.write(text)
WriteFile(files, name, text) == Append(files, [file |-> name, text |-> text])

\* What a future holds once is_url_accessible returned for it; net is what
\* its request did, NoResponse when it made none.
ProbeOutcome(channel, net) ==
    LET r == is_url_accessible(channel, net)
    IN  [state |-> "finished", raised |-> FALSE, valid |-> r.valid,
         message |-> r.message,
         net |-> IF WellFormed(channel.url) /\ ~OnAllowList(channel.url)
                 THEN HeadRequest(channel.url, net) ELSE NoResponse]

\* ProbeOutcome tabulated over the records and the responses of a run.
ProbeTable == [channel \in ValChannels \cup RunChannels |-> [net \in ProbeResponses |-> ProbeOutcome(channel, net)]]

\* is_url_accessible returns: the future holds its result.
ProbeFinish(w) ==
    /\ worker[w] # 0
    /\ \E net \in ProbeResponses :
        /\ future' = [future EXCEPT ![worker[w]] = ProbeTable[quality_channels[worker[w]]][net]]
        /\ validation_results' =
              ProbeWrites(validation_results, quality_channels[worker[w]],
                          ProbeTable[quality_channels[worker[w]]][net])
    /\ worker' = WorkerRelease(worker, w)
    /\ UNCHANGED <<pc, quality_channels, max_workers, submitted, queue, completed,
                   valid_channels, pvars, dvars, cvars, xvars>>

\* An exception leaves is_url_accessible (raised while another one is being
\* handled in its except clauses): the future holds the exception.
ProbeRaise(w) ==
    /\ worker[w] # 0
    /\ future' = [future EXCEPT ![worker[w]] =
            [state |-> "finished", raised |-> TRUE, valid |-> FALSE,
             message |-> "", net |-> NoResponse]]
    /\ worker' = WorkerRelease(worker, w)
    /\ UNCHANGED <<pc, quality_channels, max_workers, submitted, queue, completed,
                   valid_channels, validation_results, pvars, dvars, cvars, xvars>>

\* One iteration of the loop over as_completed: it yields a finished future
\* not yielded before, and the body records its outcome.
Collect ==
    /\ pc = "collect"
    /\ \E f \in 1..Len(future) :
        /\ future[f].state = "finished"
        /\ \A k \in 1..Len(completed) : completed[k] # f
        /\ completed' = Append(completed, f)
        /\ LET channel == quality_channels[f]
           IN  IF future[f].raised
               THEN /\ validation_results' = OnException(validation_results, channel)
                    /\ valid_channels' = valid_channels
               ELSE /\ validation_results' =
                        OnResult(validation_results, channel, future[f].valid, future[f].message)
                    /\ valid_channels' = OnValid(valid_channels, channel, future[f].valid)
        /\ pc' = AfterCollect(future[f].raised)
    /\ UNCHANGED <<quality_channels, max_workers, submitted, queue, worker, future,
                   pvars, dvars, cvars, xvars>>

\* as_completed is exhausted, the with block shuts the pool down, the
\* outcomes are written to logs/validation_details.json and the function
\* returns valid_channels, validation_results.
Return ==
    /\ pc = "collect"
    /\ Len(completed) = Len(future)
    /\ outputs' = WriteFile(outputs, "validation_details.json", validation_results)
    /\ pc' = "done"
    /\ UNCHANGED <<sources_config, src_i, backup_i, successful_sources, fetch_log,
                   categorized_channels, stats>>
    /\ UNCHANGED <<pvars, dvars, vvars, cvars, fvars, bvars>>

Worker(w) == ProbeStart(w) \/ ProbeFinish(w) \/ ProbeRaise(w)

NextValidate ==
    \/ Submit
    \/ SubmitDone
    \/ \E w \in DOMAIN worker : Worker(w)
    \/ Collect
    \/ Return

SpecValidate == InitValidate /\ [][NextValidate]_vars

\* The threads are scheduled fairly and every call ends: a step that can be
\* taken is eventually taken.
FairValidate == SpecValidate /\ WF_vars(NextValidate)

(***************************************************************************)
(* Claims about the validator (checked under SpecValidate, FairValidate).  *)
(***************************************************************************)
Running == {f \in 1..Len(future) : future[f].state = "running"}

\* C1: the outcome sequence never holds two outcomes of one submitted probe
\* nor an outcome of anything else, each outcome carries the name and url of
\* its own input record, and when the function returns it holds exactly one
\* outcome for each of the n input records.
C1_OneOutcomePerRecord ==
    /\ Len(validation_results) = Len(completed)
    /\ \A j, k \in 1..Len(completed) : completed[j] = completed[k] => j = k
    /\ \A k \in 1..Len(completed) :
        /\ completed[k] \in 1..Len(quality_channels)
        /\ validation_results[k].channel = quality_channels[completed[k]].name
        /\ validation_results[k].url = quality_channels[completed[k]].url
    /\ pc = "done" =>
        /\ Len(validation_results) = Len(quality_channels)
        /\ \A f \in 1..Len(quality_channels) :
              Cardinality({k \in 1..Len(completed) : completed[k] = f}) = 1

\* C1 witness: a run on three records with a pool of one worker returned,
\* the outcomes in another order than the input, one of them of a probe that
\* raised.
C1_Witness ==
    /\ pc = "done"
    /\ Len(quality_channels) = 3
    /\ max_workers = 1
    /\ Len(validation_results) = 3
    /\ completed[1] # 1
    /\ \E f \in 1..3 : future[f].raised

\* C2: at most W probes have started and not finished, and every input
\* record is submitted: the collecting loop starts only when a future exists
\* for each record, and the function returns only when each has run.
C2_AtMostWInFlight ==
    /\ Cardinality(Running) <= max_workers
    /\ Cardinality({w \in DOMAIN worker : worker[w] # 0}) = Cardinality(Running)
    /\ pc \in {"collect", "done"} =>
        /\ submitted = Len(quality_channels)
        /\ Len(future) = Len(quality_channels)
    /\ pc = "done" => \A f \in 1..Len(future) : future[f].state = "finished"

\* C2 witness: W = 2 probes are in flight while a third submitted record
\* waits in the queue.
C2_Witness ==
    /\ max_workers = 2
    /\ Cardinality(Running) = 2
    /\ queue # <<>>
    /\ Len(quality_channels) = 3

\* C3: a failing probe aborts nothing.  The run never leaves the collecting
\* loop by an exception; a record whose probe raised gets an outcome with
\* valid = FALSE; every outcome is the verdict is_url_accessible gives on
\* that record and on what its own request did, whatever happened to the
\* other probes; and at the return every record has its outcome.
C3_FailureIsolated ==
    /\ pc \in {"submit", "collect", "done"}
    /\ \A k \in 1..Len(validation_results) :
        LET f == completed[k]
        IN  /\ future[f].state = "finished"
            /\ future[f].raised => ~validation_results[k].valid
            /\ ~future[f].raised =>
                  validation_results[k].valid =
                      is_url_accessible(quality_channels[f], future[f].net).valid
    /\ pc = "done" =>
        \A f \in 1..Len(quality_channels) : \E k \in 1..Len(completed) : completed[k] = f

\* C3 witness: a probe raised and its outcome was collected first, then a
\* probe of another record succeeded and was collected with valid = TRUE, and
\* the function returned.
C3_Witness ==
    /\ pc = "done"
    /\ Len(completed) >= 2
    /\ future[completed[1]].raised
    /\ ~validation_results[1].valid
    /\ validation_results[2].valid
    /\ Len(valid_channels) >= 1

\* C4: under fair scheduling, with every call ending, the run returns with
\* all n outcomes collected.
C4_RunReturns ==
    <>(pc = "done" /\ Len(validation_results) = Len(quality_channels)
                   /\ \A f \in 1..Len(future) : future[f].state = "finished")

\* C4 witness: the run returned although there were more records than
\* workers and one probe timed out.
C4_Witness ==
    /\ pc = "done"
    /\ Len(quality_channels) > max_workers
    /\ \E f \in 1..Len(future) : future[f].net.exc = "Timeout"
    /\ Len(validation_results) = Len(quality_channels)

(***************************************************************************)
(* is_url_accessible, step by step                                         *)
(*                                                                         *)
(* One call of the prober on one record: the urlparse test, the test for   *)
(* a listed domain, then the header request and the verdict on what it     *)
(* did.  head_calls counts the calls of requests.head.                     *)
(***************************************************************************)
\* Locator lines the parser accepts: plain, without a host, without a host
\* but with a listed domain in the path, with a listed host, with a listed
\* domain in the query only, with a host that merely ends in a listed
\* domain's text, and the same for the other transports.
ProbeUrls ==
    { HTTP \o <<"h","/","s">>,
      HTTPS \o <<"h">>,
      HTTP,
      HTTP \o <<"/">> \o YouTube,
      HTTP \o YouTube \o <<"/","v">>,
      HTTPS \o <<"w","w","w",".">> \o Twitch,
      HTTP \o <<"h","/","?","r","=">> \o YouTube,
      HTTP \o <<"n","o","t">> \o YouTube,
      RTSP \o <<"v">>,
      RTSP \o Twitch \o <<"/","x">>,
      RTMP \o <<"v">> }

\* The record parse_m3u makes of a metadata line and a locator line.
RecordOf(name, url) ==
    parse_m3u(EXTINF \o <<",">> \o name \o Newline \o url \o Newline, SourceUrl)[1]

ProbeChannels == { RecordOf(<<"a">>, url) : url \in ProbeUrls }

InitProbe ==
    /\ pc = "probe"
    /\ ParserIdle /\ DedupIdle /\ ValidatorIdle /\ CategorizerIdle
    /\ FilterIdle /\ RunIdle
    /\ probe_channel \in { <<channel>> : channel \in ProbeChannels }
    /\ probe_net \in { <<net>> : net \in NetResponses }
    /\ probe_result = NoResult
    /\ head_calls = 0

\* result = urlparse(url); if not all([result.scheme, result.netloc]):
\* return False, ...
UrlCheck ==
    /\ pc = "probe"
    /\ IF WellFormed(probe_channel[1].url)
       THEN /\ pc' = "probe_allow"
            /\ UNCHANGED probe_result
       ELSE /\ pc' = "probed"
            /\ probe_result' = [valid |-> FALSE, message |-> "invalid_url"]
    /\ UNCHANGED <<probe_channel, probe_net, head_calls>>
    /\ UNCHANGED <<pvars, dvars, vvars, cvars, fvars, rvars>>

\* if any(domain in url for domain in [...]): return True, ...
AllowListCheck ==
    /\ pc = "probe_allow"
    /\ IF OnAllowList(probe_channel[1].url)
       THEN /\ pc' = "probed"
            /\ probe_result' = [valid |-> TRUE, message |-> "skipped"]
       ELSE /\ pc' = "probe_head"
            /\ UNCHANGED probe_result
    /\ UNCHANGED <<probe_channel, probe_net, head_calls>>
    /\ UNCHANGED <<pvars, dvars, vvars, cvars, fvars, rvars>>

\* response = requests.head(...), the status test and the except clauses.
SendHead ==
    /\ pc = "probe_head"
    /\ head_calls' = head_calls + 1
    /\ probe_result' = Classify(HeadRequest(probe_channel[1].url, probe_net[1]))
    /\ pc' = "probed"
    /\ UNCHANGED <<probe_channel, probe_net>>
    /\ UNCHANGED <<pvars, dvars, vvars, cvars, fvars, rvars>>

NextProbe == UrlCheck \/ AllowListCheck \/ SendHead

SpecProbe == InitProbe /\ [][NextProbe]_vars

EndsWith(s, suffix) ==
    /\ Len(suffix) <= Len(s)
    /\ SubSeq(s, Len(s) - Len(suffix) + 1, Len(s)) = suffix

\* The host of the locator is a listed domain or a subdomain of one.
HostOnAllowList(url) ==
    \E domain \in TrustedDomains :
        \/ Lower(UrlNetloc(url)) = domain
        \/ EndsWith(Lower(UrlNetloc(url)), <<".">> \o domain)

\* C11: the prober skips the request and answers reachable exactly when the
\* locator is well-formed and its host is a listed one; a well-formed
\* locator with another host gets one header request and is never skipped,
\* wherever else a listed domain occurs in it.
C11_SkipIffHostListed ==
    pc = "probed" =>
        LET url == probe_channel[1].url
        IN  /\ (probe_result = [valid |-> TRUE, message |-> "skipped"] /\ head_calls = 0)
               <=> (WellFormed(url) /\ HostOnAllowList(url))
            /\ (WellFormed(url) /\ ~HostOnAllowList(url)) =>
                  (head_calls = 1 /\ probe_result.message # "skipped")

\* C12: every call ends with one verdict.  A locator without scheme or host
\* is unreachable with no request made, whether or not a listed domain
\* occurs in it; a status of 200, 301 or 302 is reachable; any other status,
\* a timeout, a connection failure and any other failure are unreachable;
\* reachable is the verdict only of a skip or of one of the three statuses.
C12_OneVerdictPerCall ==
    /\ pc \in {"probe", "probe_allow", "probe_head", "probed"}
    /\ pc # "probed" => (ENABLED NextProbe /\ probe_result = NoResult)
    /\ pc = "probed" =>
        LET url == probe_channel[1].url
            net == probe_net[1]
        IN  /\ probe_result = is_url_accessible(probe_channel[1], net)
            /\ probe_result.message \in
                  {"invalid_url", "skipped", "timeout", "connection_error", "exception", "status"}
            /\ (UrlScheme(url) = <<>> \/ UrlNetloc(url) = <<>>) =>
                  (probe_result = [valid |-> FALSE, message |-> "invalid_url"] /\ head_calls = 0)
            /\ head_calls = 1 =>
                  /\ (net.exc = "none" /\ net.status \in {200, 301, 302}
                        /\ UrlScheme(url) \in {<<"h","t","t","p">>, <<"h","t","t","p","s">>})
                        => probe_result = [valid |-> TRUE, message |-> "status"]
                  /\ (net.exc = "none" /\ net.status \notin {200, 301, 302}) => ~probe_result.valid
                  /\ net.exc = "Timeout" => ~probe_result.valid
                  /\ net.exc = "ConnectionError" => ~probe_result.valid
                  /\ net.exc = "Exception" => ~probe_result.valid
            /\ probe_result.valid =>
                  \/ probe_result.message = "skipped" /\ head_calls = 0
                  \/ /\ probe_result.message = "status"
                     /\ head_calls = 1
                     /\ net.exc = "none"
                     /\ net.status \in {200, 301, 302}

\* C12 witness: a locator without a host that holds a listed domain was
\* called unreachable with no request made.
C12_Witness ==
    /\ pc = "probed"
    /\ ~WellFormed(probe_channel[1].url)
    /\ OnAllowList(probe_channel[1].url)
    /\ probe_result = [valid |-> FALSE, message |-> "invalid_url"]
    /\ head_calls = 0

(***************************************************************************)
(* filter_quality_channels                                                 *)
(***************************************************************************)
bad_names ==
    << <<"t","e","s","t">>,
       <<"e","x","a","m","p","l","e">>,
       <<"d","e","m","o">>,
       <<"u65E0","u6548">>,
       <<"u6D4B","u8BD5">> >>

good_keywords ==
    << <<"c","c","t","v">>, <<"u592E","u89C6">>, <<"u536B","u89C6">>,
       <<"u6E56","u5357">>, <<"u6D59","u6C5F">>, <<"u6C5F","u82CF">>,
       <<"u5317","u4EAC">>, <<"u4E0A","u6D77">>, <<"u5E7F","u4E1C">>,
       <<"v","i","u","t","v">>, <<"u65E0","u7EBF","u65B0","u95FB">>,
       <<"H","O","Y">>, <<"N","O","W">>, <<"u9999","u6E2F">>,
       <<"u51E4","u51F0">>, <<"u7FE1","u7FE0">>, <<"u660E","u73E0">>,
       <<"t","v","b">>, <<"R","T","H","K">> >>

FilterNameAsIs(channel) == channel.name

\* name = channel['name'].lower()
FilterName(channel) == Lower(channel.name)

\* One pass of the loop body: continue on a bad name, append otherwise, on
\* either side of the test for a good keyword.
FilterOne(quality, channel) ==
    LET name == FilterName(channel)
    IN  IF AnyKeyword(name, bad_names) THEN quality
        ELSE IF AnyKeyword(name, good_keywords) THEN Append(quality, channel)
        ELSE Append(quality, channel)

\* Names with a bad keyword in another case, in lower case, beside a good
\* keyword and not in ASCII; names with a good keyword only; a plain name.
FilterNames ==
    { <<"T","e","s","t">>,
      <<"D","E","M","O">>,
      <<"c","c","t","v","d","e","m","o">>,
      <<"u6D4B","u8BD5">>,
      <<"c","c","t","v">>,
      <<"H","O","Y">>,
      <<"x">> }

FilterChannels == { RecordOf(name, HTTP \o <<"u">>) : name \in FilterNames }

InitFilter ==
    /\ pc = "filter"
    /\ ParserIdle /\ ValidatorIdle /\ CategorizerIdle /\ ExtraIdle
    /\ all_channels = <<>>
    /\ dedup_i = 0
    /\ unique_channels = <<>>
    /\ unique_channels_list \in SeqsUpTo(FilterChannels, MaxRecords)

\* for channel in channels: ... (one iteration)
FilterStep ==
    /\ pc = "filter"
    /\ filter_i < Len(unique_channels_list)
    /\ filter_i' = filter_i + 1
    /\ quality_channels' = FilterOne(quality_channels, unique_channels_list[filter_i + 1])
    /\ UNCHANGED <<pc, max_workers, submitted, queue, worker, future, completed,
                   valid_channels, validation_results>>
    /\ UNCHANGED <<pvars, dvars, cvars, bvars, rvars>>

\* return quality_channels
FilterReturn ==
    /\ pc = "filter"
    /\ filter_i = Len(unique_channels_list)
    /\ pc' = "filtered"
    /\ UNCHANGED <<pvars, dvars, vvars, cvars, xvars>>

NextFilter == FilterStep \/ FilterReturn

SpecFilter == InitFilter /\ [][NextFilter]_vars

\* The name holds no exclusion keyword, whatever the case of its letters.
NotExcluded(channel) == ~MatchesIgnoringCase(channel.name, bad_names)

\* C13: the filter returns exactly the records of its input whose name holds
\* no exclusion keyword in any case, each once, unchanged and in input
\* order; a good keyword in the name changes nothing.
C13_FilterIsSubsequence ==
    /\ pc \in {"filter", "filtered"} =>
          quality_channels = SelectSeq(SubSeq(unique_channels_list, 1, filter_i), NotExcluded)
    /\ pc = "filtered" => filter_i = Len(unique_channels_list)

\* C13 witness: of three records the filter dropped the one named "Test",
\* and kept one with a good keyword and one without, in input order.
C13_Witness ==
    /\ pc = "filtered"
    /\ Len(unique_channels_list) = 3
    /\ unique_channels_list[1].name = <<"c","c","t","v">>
    /\ unique_channels_list[2].name = <<"T","e","s","t">>
    /\ unique_channels_list[3].name = <<"x">>
    /\ quality_channels = <<unique_channels_list[1], unique_channels_list[3]>>

(***************************************************************************)
(* Claims about the lists the validator returns (checked under             *)
(* SpecValidate).                                                          *)
(***************************************************************************)
OutcomeValid(k) == validation_results[k].valid

\* The positions of the outcome sequence with valid = TRUE, ascending.
ValidPositions ==
    SelectSeq([k \in 1..Len(validation_results) |-> k], OutcomeValid)

\* C17: valid_channels is the subsequence of the outcome sequence with
\* valid = TRUE, in the order of collection: its j-th record is the record
\* of the j-th such outcome, so a record is in it exactly when its outcome
\* is valid, and two records are in the order their probes were collected.
C17_ValidIsSubsequenceOfOutcomes ==
    /\ Len(completed) = Len(validation_results)
    /\ valid_channels =
          [j \in 1..Len(ValidPositions) |-> quality_channels[completed[ValidPositions[j]]]]
    /\ \A j \in 1..Len(valid_channels) :
          /\ valid_channels[j].name = validation_results[ValidPositions[j]].channel
          /\ valid_channels[j].url = validation_results[ValidPositions[j]].url

\* C17 witness: of three records the second was collected first and the
\* first last, both reachable, a probe in between was not, and the returned
\* sequence holds the second record before the first.
C17_Witness ==
    /\ pc = "done"
    /\ Len(quality_channels) = 3
    /\ quality_channels[1] # quality_channels[2]
    /\ completed = <<2, 3, 1>>
    /\ ~validation_results[2].valid
    /\ valid_channels = <<quality_channels[2], quality_channels[1]>>

\* C18: the two result lists change only in a step of the collecting loop,
\* which is the main thread's: such a step appends one outcome, at most one
\* record, and moves no worker and no future; a step of a pool worker
\* changes its own slot, its own future and the queue, and neither list.
C18_OnlyCollectorAppends ==
    [][ /\ (validation_results' # validation_results \/ valid_channels' # valid_channels) =>
            /\ pc = "collect"
            /\ Len(completed') = Len(completed) + 1
            /\ Len(validation_results') = Len(validation_results) + 1
            /\ SubSeq(validation_results', 1, Len(validation_results)) = validation_results
            /\ \/ valid_channels' = valid_channels
               \/ /\ Len(valid_channels') = Len(valid_channels) + 1
                  /\ SubSeq(valid_channels', 1, Len(valid_channels)) = valid_channels
            /\ worker' = worker
            /\ future' = future
            /\ queue' = queue
        /\ (worker' # worker) =>
            /\ validation_results' = validation_results
            /\ valid_channels' = valid_channels
            /\ Cardinality({w \in DOMAIN worker : worker'[w] # worker[w]}) = 1
            /\ Cardinality({f \in 1..Len(future) : future'[f] # future[f]}) = 1
      ]_vars

\* C18 witness: the collecting loop has appended an outcome and a record
\* while two workers are inside their probes.
C18_Witness ==
    /\ pc = "collect"
    /\ Len(validation_results) = 1
    /\ Len(valid_channels) = 1
    /\ Cardinality(Running) = 2

(***************************************************************************)
(* run                                                                     *)
(*                                                                         *)
(* The whole pipeline: the primary sources are fetched and parsed, the     *)
(* backup sources if none gave content, then the records are deduplicated, *)
(* filtered, validated by the pool, put into the category lists and        *)
(* written out.  The steps of the deduplicator, of the filter and of the   *)
(* validator are the actions above.                                        *)
(***************************************************************************)
DefaultMaxWorkers == 5

Categories == {"cctv", "satellite", "local", "hongkong", "other"}

\* The keys of categorized_channels in the order the dict holds them.
CategoryOrder == <<"cctv", "satellite", "local", "hongkong", "other">>

CategoryFile(c) ==
    CASE c = "cctv" -> "cctv.m3u"
      [] c = "satellite" -> "satellite.m3u"
      [] c = "local" -> "local.m3u"
      [] c = "hongkong" -> "hongkong.m3u"
      [] c = "other" -> "other.m3u"

\* f"{category}频道"
CategoryTitle(c) ==
    (CASE c = "cctv" -> <<"c","c","t","v">>
       [] c = "satellite" -> <<"s","a","t","e","l","l","i","t","e">>
       [] c = "local" -> <<"l","o","c","a","l">>
       [] c = "hongkong" -> <<"h","o","n","g","k","o","n","g">>
       [] c = "other" -> <<"o","t","h","e","r">>) \o <<"u9891","u9053">>

\* "validated" stands for the title of the validated playlist.
ValidatedTitle == <<"v","a","l","i","d","a","t","e","d">>

InitRun ==
    /\ pc = "fetch"
    /\ ParserIdle /\ DedupIdle /\ ValidatorIdle /\ CategorizerIdle
    /\ FilterIdle /\ ProberIdle
    /\ sources_config \in
          { [sources |-> Sources, backup_sources |-> b] : b \in {<<>>, BackupSources} }
    /\ src_i = 0
    /\ backup_i = 0
    /\ successful_sources = 0
    /\ fetch_log = <<>>
    /\ categorized_channels = <<>>
    /\ outputs = <<>>
    /\ stats = <<>>

\* The body of both fetch loops: content = self.fetch_source(url), and when
\* it is truthy the parsed records are added and the counter goes up.
ChannelsAfter(all, fetched, url) ==
    IF Truthy(fetched) THEN all \o ParseTable[fetched.text][url] ELSE all

SuccessfulAfter(n, fetched) == IF Truthy(fetched) THEN n + 1 ELSE n

\* One iteration of "for source_url in self.sources_config['sources']".
FetchPrimary ==
    /\ pc = "fetch"
    /\ src_i < Len(sources_config.sources)
    /\ \E fetched \in FetchResults :
        LET source_url == sources_config.sources[src_i + 1]
        IN  /\ fetch_log' = Append(fetch_log, [url |-> source_url, fetched |-> fetched])
            /\ all_channels' = ChannelsAfter(all_channels, fetched, source_url)
            /\ successful_sources' = SuccessfulAfter(successful_sources, fetched)
    /\ src_i' = src_i + 1
    /\ UNCHANGED <<pc, dedup_i, unique_channels, unique_channels_list>>
    /\ UNCHANGED <<sources_config, backup_i, categorized_channels, outputs, stats>>
    /\ UNCHANGED <<pvars, vvars, cvars, fvars, bvars>>

\* A mutant of BackupGate: the backup sources are tried whatever the primary
\* sources gave.
BackupGateAlways(successful, backup_sources) == backup_sources # <<>>

\* if successful_sources == 0 and self.sources_config['backup_sources']:
BackupGate(successful, backup_sources) == successful = 0 /\ backup_sources # <<>>

\* The primary loop is over: the backup loop is entered or skipped.
FetchPrimaryDone ==
    /\ pc = "fetch"
    /\ src_i = Len(sources_config.sources)
    /\ pc' = IF BackupGate(successful_sources, sources_config.backup_sources)
             THEN "backup" ELSE "dedup"
    /\ UNCHANGED <<pvars, dvars, vvars, cvars, xvars>>

\* One iteration of "for backup_url in self.sources_config['backup_sources']".
FetchBackup ==
    /\ pc = "backup"
    /\ backup_i < Len(sources_config.backup_sources)
    /\ \E fetched \in FetchResults :
        LET backup_url == sources_config.backup_sources[backup_i + 1]
        IN  /\ fetch_log' = Append(fetch_log, [url |-> backup_url, fetched |-> fetched])
            /\ all_channels' = ChannelsAfter(all_channels, fetched, backup_url)
            /\ successful_sources' = SuccessfulAfter(successful_sources, fetched)
    /\ backup_i' = backup_i + 1
    /\ UNCHANGED <<pc, dedup_i, unique_channels, unique_channels_list>>
    /\ UNCHANGED <<sources_config, src_i, categorized_channels, outputs, stats>>
    /\ UNCHANGED <<pvars, vvars, cvars, fvars, bvars>>

FetchBackupDone ==
    /\ pc = "backup"
    /\ backup_i = Len(sources_config.backup_sources)
    /\ pc' = "dedup"
    /\ UNCHANGED <<pvars, dvars, vvars, cvars, xvars>>

\* raw_content = self.generate_m3u_content(unique_channels_list, ...), written
\* to outputs/full_raw.m3u.
WriteRaw ==
    /\ pc = "deduped"
    /\ outputs' = WriteFile(outputs, "full_raw.m3u",
                            generate_m3u_content(unique_channels_list, Title))
    /\ pc' = "filter"
    /\ UNCHANGED <<sources_config, src_i, backup_i, successful_sources, fetch_log,
                   categorized_channels, stats>>
    /\ UNCHANGED <<pvars, dvars, vvars, cvars, fvars, bvars>>

\* if quality_channels: the validator is called with its default width;
\* else both of its results are empty lists.
StartValidation ==
    /\ pc = "filtered"
    /\ IF quality_channels # <<>>
       THEN /\ pc' = "submit"
            /\ max_workers' = DefaultMaxWorkers
            /\ worker' = [w \in PoolWorkers(DefaultMaxWorkers) |-> 0]
       ELSE /\ pc' = "done"
            /\ UNCHANGED <<max_workers, worker>>
    /\ UNCHANGED <<quality_channels, submitted, queue, future, completed,
                   valid_channels, validation_results>>
    /\ UNCHANGED <<pvars, dvars, cvars, xvars>>

\* categorized_channels = {'cctv': [], ...}
BucketsInit ==
    /\ pc = "done"
    /\ categorized_channels' = [c \in Categories |-> <<>>]
    /\ pc' = "bucket"
    /\ UNCHANGED <<sources_config, src_i, backup_i, successful_sources, fetch_log,
                   outputs, stats>>
    /\ UNCHANGED <<pvars, dvars, vvars, cvars, fvars, bvars>>

\* A mutant of BucketAppend: a record of any category is also put in other.
BucketAppendAlsoOther(buckets, c, channel) ==
    [k \in DOMAIN buckets |->
        IF k = c \/ k = "other" THEN Append(buckets[k], channel) ELSE buckets[k]]

\* categorized_channels[category].append(channel)
BucketAppend(buckets, c, channel) == [buckets EXCEPT ![c] = Append(@, channel)]

\* The records of valid_channels the categorizing loop has consumed.
Bucketed(buckets) ==
    Len(buckets["cctv"]) + Len(buckets["satellite"]) + Len(buckets["local"])
        + Len(buckets["hongkong"]) + Len(buckets["other"])

\* One iteration of "for channel in valid_channels".
BucketStep ==
    /\ pc = "bucket"
    /\ \E k \in 1..Len(valid_channels) :
        /\ k = Bucketed(categorized_channels) + 1
        /\ channel_name' = valid_channels[k].name
        /\ category' = categorize_channel(valid_channels[k].name)
        /\ categorized_channels' =
              BucketAppend(categorized_channels,
                           categorize_channel(valid_channels[k].name), valid_channels[k])
    /\ UNCHANGED <<pc, sources_config, src_i, backup_i, successful_sources, fetch_log,
                   outputs, stats>>
    /\ UNCHANGED <<pvars, dvars, vvars, fvars, bvars>>

\* A mutant of WritesCategory: a playlist is written for an empty list too.
WritesCategoryAlways(records) == TRUE

\* if channels:
WritesCategory(records) == records # <<>>

\* The loop over categorized_channels.items() from its k-th key on.
RECURSIVE WriteCategoryFiles(_, _, _)
WriteCategoryFiles(files, buckets, k) ==
    IF k > Len(CategoryOrder) THEN files
    ELSE LET c == CategoryOrder[k]
         IN  WriteCategoryFiles(
                 IF WritesCategory(buckets[c])
                 THEN WriteFile(files, CategoryFile(c),
                                generate_m3u_content(buckets[c], CategoryTitle(c)))
                 ELSE files,
                 buckets, k + 1)

\* The validated playlist, then the category playlists.
WritePlaylists ==
    /\ pc = "bucket"
    /\ Bucketed(categorized_channels) = Len(valid_channels)
    /\ outputs' =
          WriteCategoryFiles(
              WriteFile(outputs, "full_validated.m3u",
                        generate_m3u_content(valid_channels, ValidatedTitle)),
              categorized_channels, 1)
    /\ pc' = "written"
    /\ UNCHANGED <<sources_config, src_i, backup_i, successful_sources, fetch_log,
                   categorized_channels, stats>>
    /\ UNCHANGED <<pvars, dvars, vvars, cvars, fvars, bvars>>

\* len(valid_channels) / len(quality_channels) if quality_channels else 0,
\* kept as numerator and denominator.
ValidityRatio(valid, quality) ==
    IF quality # <<>> THEN <<Len(valid), Len(quality)>> ELSE <<0, 1>>

\* The dict stats without its clock readings.
Stats ==
    [sources_attempted |->
        Len(sources_config.sources) + Len(sources_config.backup_sources),
     sources_successful |-> successful_sources,
     total_channels |-> Len(unique_channels_list),
     quality_channels |-> Len(quality_channels),
     valid_channels |-> Len(valid_channels),
     validity_ratio |-> ValidityRatio(valid_channels, quality_channels),
     categories |-> [c \in Categories |-> Len(categorized_channels[c])]]

\* The log file, stats.json, and update_readme, which writes README.md or
\* fails and is caught; of the log only the fetch lines are kept.
WriteStats ==
    /\ pc = "written"
    /\ stats' = Stats
    /\ \E readme_ok \in BOOLEAN :
        outputs' =
            LET logged == WriteFile(outputs, "latest_update.log",
                                    [k \in 1..Len(fetch_log) |-> fetch_log[k].url])
                summed == WriteFile(logged, "stats.json", Stats)
            IN  IF readme_ok THEN WriteFile(summed, "README.md", Stats) ELSE summed
    /\ pc' = "finished"
    /\ UNCHANGED <<sources_config, src_i, backup_i, successful_sources, fetch_log,
                   categorized_channels>>
    /\ UNCHANGED <<pvars, dvars, vvars, cvars, fvars, bvars>>

NextRun ==
    \/ FetchPrimary
    \/ FetchPrimaryDone
    \/ FetchBackup
    \/ FetchBackupDone
    \/ DedupStep
    \/ DedupList
    \/ WriteRaw
    \/ FilterStep
    \/ FilterReturn
    \/ StartValidation
    \/ Submit
    \/ SubmitDone
    \/ \E w \in DOMAIN worker : Worker(w)
    \/ Collect
    \/ Return
    \/ BucketsInit
    \/ BucketStep
    \/ WritePlaylists
    \/ WriteStats

SpecRun == InitRun /\ [][NextRun]_vars

\* The threads are scheduled fairly and every call ends.
FairRun == SpecRun /\ WF_vars(NextRun)

(***************************************************************************)
(* Claims about run (checked under SpecRun, FairRun).                      *)
(***************************************************************************)
\* The category lists exist from the categorizing loop on.
Categorized == pc \in {"bucket", "written", "finished"}

\* The categories whose list holds the record.
BucketsOf(record) ==
    {c \in Categories : \E i \in 1..Len(categorized_channels[c]) :
                            categorized_channels[c][i] = record}

\* C14: the five category lists partition the validated records: a record
\* the categorizing loop has consumed is in exactly one list, once, a list
\* holds nothing else, after the loop every validated record is consumed,
\* and the category counts of the summary add up to its validated count.
C14_BucketsPartitionValidated ==
    /\ Categorized =>
        /\ \A j \in 1..Len(valid_channels) :
              Cardinality(BucketsOf(valid_channels[j])) =
                  IF j <= Bucketed(categorized_channels) THEN 1 ELSE 0
        /\ \A c \in Categories : \A i, j \in 1..Len(categorized_channels[c]) :
              /\ categorized_channels[c][i] \in Range(valid_channels)
              /\ categorized_channels[c][i] = categorized_channels[c][j] => i = j
    /\ pc \in {"written", "finished"} => Bucketed(categorized_channels) = Len(valid_channels)
    /\ pc = "finished" =>
        /\ \A c \in Categories : stats.categories[c] = Len(categorized_channels[c])
        /\ stats.valid_channels = Len(valid_channels)
        /\ stats.categories["cctv"] + stats.categories["satellite"]
              + stats.categories["local"] + stats.categories["hongkong"]
              + stats.categories["other"] = stats.valid_channels

\* C14 witness: a run ended with two validated records, one in cctv and one
\* in other.
C14_Witness ==
    /\ pc = "finished"
    /\ Len(valid_channels) = 2
    /\ Len(categorized_channels["cctv"]) = 1
    /\ Len(categorized_channels["other"]) = 1
    /\ stats.valid_channels = 2

\* The outcome of the run for the locator is reachable.
ReachableOutcome(url) ==
    /\ \E k \in 1..Len(validation_results) :
          validation_results[k].url = url /\ validation_results[k].valid
    /\ \A k \in 1..Len(validation_results) :
          validation_results[k].url = url => validation_results[k].valid

\* The record is one of the deduplicated list, passed the filter and was
\* probed reachable in this run.
PassedAllStages(record) ==
    /\ record \in Range(unique_channels_list)
    /\ NotExcluded(record)
    /\ record \in Range(quality_channels)
    /\ ReachableOutcome(record.url)

\* The playlists written, of all validated records and of one category.
ValidatedPlaylists ==
    {k \in 1..Len(outputs) :
        outputs[k].file \in {"full_validated.m3u"} \cup {CategoryFile(c) : c \in Categories}}

\* C15: every record of a category list, of the validated sequence and of
\* the playlists written from them is a record of the deduplicated list
\* that passed the filter and whose probe in this run was reachable; a record
\* the filter excluded or whose outcome is unreachable is in none of them.
C15_OnlyFilteredAndReachable ==
    /\ \A j \in 1..Len(valid_channels) : PassedAllStages(valid_channels[j])
    /\ Categorized =>
        /\ \A c \in Categories : \A i \in 1..Len(categorized_channels[c]) :
              PassedAllStages(categorized_channels[c][i])
        /\ \A a \in 1..Len(unique_channels_list) :
              (~NotExcluded(unique_channels_list[a])
                  \/ ~ReachableOutcome(unique_channels_list[a].url)) =>
                        BucketsOf(unique_channels_list[a]) = {}
    /\ \A k \in ValidatedPlaylists :
          \A record \in Range(parse_m3u(outputs[k].text, SourceUrl)) :
              /\ ReachableOutcome(record.url)
              /\ \E a \in 1..Len(unique_channels_list) :
                    /\ unique_channels_list[a].url = record.url
                    /\ unique_channels_list[a].name = record.name
                    /\ NotExcluded(unique_channels_list[a])

\* C15 witness: a run ended in which the filter dropped a record, a probe
\* called another unreachable, and a third record is in a category list and
\* in a category playlist.
C15_Witness ==
    /\ pc = "finished"
    /\ \E a \in 1..Len(unique_channels_list) : ~NotExcluded(unique_channels_list[a])
    /\ \E k \in 1..Len(validation_results) : ~validation_results[k].valid
    /\ Len(categorized_channels["cctv"]) = 1
    /\ \E k \in 1..Len(outputs) : outputs[k].file = "cctv.m3u"

\* A file of that name was written.
Written(name) == \E k \in 1..Len(outputs) : outputs[k].file = name

GaveContent(call) == ~call.fetched.none /\ Len(call.fetched.text) > 0

\* The records the run holds at any stage.
RecordsHeld ==
    Range(all_channels) \cup Range(unique_channels_list) \cup Range(quality_channels)
        \cup Range(valid_channels)

\* C19: the calls of fetch_source go through the primary sources in list
\* order, then through the backup sources in list order; a backup source is
\* called only after every primary source was called and none of them gave
\* content; once a primary source gave content no backup source is ever
\* called and no record has a backup source as its source.
C19_PrimariesBeforeBackups ==
    LET primary == sources_config.sources
        backup == sources_config.backup_sources
    IN  /\ Len(fetch_log) <= Len(primary) + Len(backup)
        /\ \A k \in 1..Len(fetch_log) :
              fetch_log[k].url =
                  IF k <= Len(primary) THEN primary[k] ELSE backup[k - Len(primary)]
        /\ Len(fetch_log) > Len(primary) =>
              \A k \in 1..Len(primary) : ~GaveContent(fetch_log[k])
        /\ (\E k \in 1..Len(fetch_log) : k <= Len(primary) /\ GaveContent(fetch_log[k])) =>
              /\ pc # "backup"
              /\ \A record \in RecordsHeld :
                    /\ record.source \in Range(primary)
                    /\ record.source \notin Range(backup)

\* C19 witness: both primary sources failed, one with None and one with an
\* empty text, the backup source was fetched third, and a record of it is
\* among the validated ones at the end of the run.
C19_Witness ==
    /\ pc = "finished"
    /\ Len(fetch_log) = 3
    /\ fetch_log[1].fetched.none
    /\ ~fetch_log[2].fetched.none
    /\ fetch_log[3].url = BackupSources[1]
    /\ \E j \in 1..Len(valid_channels) : valid_channels[j].source = BackupSources[1]

\* The locator has the scheme rtsp or rtmp and holds no listed domain.
NonHttpUnlisted(url) ==
    /\ UrlScheme(url) \in {<<"r","t","s","p">>, <<"r","t","m","p">>}
    /\ \A domain \in TrustedDomains : ~Contains(url, domain)

\* C20: the parser emits the records with an rtsp or rtmp locator; the
\* outcome of such a record is unreachable unless its locator holds a listed
\* domain, and then it is the skip; a record with such a locator and no
\* listed domain is not among the validated records, in no category list and
\* in no playlist written from them.
C20_NonHttpNeverValidated ==
    /\ \A k \in 1..Len(fetch_log) :
          fetch_log[k].fetched = [none |-> FALSE, text |-> DocB] =>
              \A url \in {RTSP \o <<"v">>, RTMP \o Twitch \o <<"/","y">>} :
                  \E j \in 1..Len(all_channels) :
                      /\ all_channels[j].url = url
                      /\ all_channels[j].source = fetch_log[k].url
    /\ \A k \in 1..Len(validation_results) :
          LET outcome == validation_results[k]
          IN  /\ NonHttpUnlisted(outcome.url) => ~outcome.valid
              /\ (/\ UrlScheme(outcome.url) \in {<<"r","t","s","p">>, <<"r","t","m","p">>}
                  /\ outcome.valid) => outcome.message = "skipped"
    /\ \A j \in 1..Len(valid_channels) : ~NonHttpUnlisted(valid_channels[j].url)
    /\ Categorized =>
          \A c \in Categories : \A i \in 1..Len(categorized_channels[c]) :
              ~NonHttpUnlisted(categorized_channels[c][i].url)
    /\ \A k \in ValidatedPlaylists :
          \A record \in Range(parse_m3u(outputs[k].text, SourceUrl)) :
              ~NonHttpUnlisted(record.url)

\* C20 witness: a run ended in which the record with the locator rtsp://v
\* was probed, its request failed and it is unreachable, while the record
\* with an rtmp locator on a listed platform is in the list of other.
C20_Witness ==
    /\ pc = "finished"
    /\ \E k \in 1..Len(validation_results) :
          /\ validation_results[k].url = RTSP \o <<"v">>
          /\ ~validation_results[k].valid
          /\ validation_results[k].message = "exception"
    /\ \E i \in 1..Len(categorized_channels["other"]) :
          UrlScheme(categorized_channels["other"][i].url) = <<"r","t","m","p">>

====
